---- MODULE Spec2Model ----
(***************************************************************************)
(* Sentiment API: the Analyzer singleton (app/sentiment.py), the request   *)
(* and response contracts (app/models.py) and the HTTP surface with its    *)
(* Prometheus metrics (app/main.py).                                       *)
(*                                                                         *)
(* Spec        the application: the startup event and the four routes.     *)
(*             Every handler is an `async def` without an await, so each   *)
(*             runs to completion on the event loop: one action each.      *)
(* SpecThreads get_analyzer() called from several threads, one step per    *)
(*             statement of the function (it holds no lock).               *)
(*                                                                         *)
(* A text is modelled by its length (the text's content reaches the code   *)
(* only through the classification capability, whose answer is an input),  *)
(* a raw label by its sequence of characters, a score in thousandths.      *)
(***************************************************************************)
EXTENDS Integers, Sequences, FiniteSets, TLC

VARIABLES
    _analyzer,          \* sentiment.py: the module-level singleton
    constructed,        \* SentimentAnalyzer objects whose __init__ returned
    ctor_calls,         \* SentimentAnalyzer.__init__ invocations
    model_calls,        \* invocations of the classification capability
    startup,            \* startup_event: "pending", "skipped", "returned", "raised"
    requests_total,     \* Counter by (endpoint, status)
    predictions_total,  \* Counter by sentiment
    request_duration,   \* Histogram by endpoint: the number of observations
    nreq,               \* requests received so far
    last,               \* what the last request did and was answered
    pc,                 \* SpecThreads: each thread's position in get_analyzer
    fresh,              \* SpecThreads: the object a thread built, not yet assigned
    calls,              \* SpecThreads: get_analyzer() calls each thread has begun
    returned,           \* SpecThreads: the ids of the objects get_analyzer returned
    late                \* SpecThreads: the thread's call began after a construction succeeded

vars == <<_analyzer, constructed, ctor_calls, model_calls, startup, requests_total,
          predictions_total, request_duration, nreq, last, pc, fresh, calls, returned,
          late>>

appVars == <<model_calls, startup, requests_total, predictions_total,
             request_duration, nreq, last>>

threadVars == <<pc, fresh, calls, returned, late>>

-----------------------------------------------------------------------------
(* Bounds of the model *)

MaxRequests == 3

ExtraLen == 1

NumThreads == 2

MaxCalls == 2

-----------------------------------------------------------------------------
(* Program constants *)

min_length == 1

max_length == 5000

\* AnalyzeResponse.confidence: ge=0.0 and le=1.0, in thousandths
ge == 0

le == 1000

model_name == "distilbert-base-uncased-finetuned-sst-2-english"

\* Python's None, where an Analyzer object is expected
None == [id |-> 0, model |-> "", model_version |-> ""]

\* Lengths of the "text" of a request body
TextLens ==
    {min_length - 1, min_length, max_length}
        \cup {max_length + k : k \in 1..ExtraLen}

\* Request bodies of POST /analyze: without a "text", or with one of a length
NoBody == [present |-> FALSE, len |-> 0]

Bodies == {NoBody} \cup [present : {TRUE}, len : TextLens]

Sentiments == {"positive", "negative", "neutral"}

Endpoints == {"/", "/health", "/analyze", "/metrics"}

LabelPairs == Endpoints \X {"success", "error"}

-----------------------------------------------------------------------------
(* Raw labels of the classification capability, as character sequences *)

Lowercase == <<"a","b","c","d","e","f","g","h","i","j","k","l","m",
               "n","o","p","q","r","s","t","u","v","w","x","y","z">>

Uppercase == <<"A","B","C","D","E","F","G","H","I","J","K","L","M",
               "N","O","P","Q","R","S","T","U","V","W","X","Y","Z">>

POSITIVE == <<"P","O","S","I","T","I","V","E">>

NEGATIVE == <<"N","E","G","A","T","I","V","E">>

NEUTRAL == <<"N","E","U","T","R","A","L">>

RawLabels ==
    { POSITIVE, NEGATIVE, NEUTRAL,
      <<"P","o","s","i","t","i","v","e">>,
      <<"n","e","g","a","t","i","v","e">>,
      <<"n","e","u","t","r","a","L">>,
      <<"L","A","B","E","L","_","1">>,
      <<"P","O","S","I","T","I","V","E"," ">>,
      <<>> }

\* Scores in thousandths: below 0, the ends of [0,1], above 1
Scores == {ge - 1, ge, le, le + 1}

\* What one call of the classification capability does
Outcomes ==
    {[raised |-> TRUE, label |-> <<>>, score |-> 0]}
        \cup [raised : {FALSE}, label : RawLabels, score : Scores]

-----------------------------------------------------------------------------
(* app/sentiment.py *)

\* The uppercase of each lowercase letter
ToUpper ==
    [c \in {Lowercase[i] : i \in 1..Len(Lowercase)} |->
        Uppercase[CHOOSE i \in 1..Len(Lowercase) : Lowercase[i] = c]]

\* str.upper() on one character
UpperChar(c) == IF c \in DOMAIN ToUpper THEN ToUpper[c] ELSE c

\* str.upper()
upper(s) == [i \in 1..Len(s) |-> UpperChar(s[i])]

label_map ==
    (POSITIVE :> "positive") @@ (NEGATIVE :> "negative") @@ (NEUTRAL :> "neutral")

\* label_map.get(result["label"].upper(), "neutral"), case-sensitive variant
MapLabelNoUpper(label) ==
    IF label \in DOMAIN label_map THEN label_map[label] ELSE "neutral"

\* label_map.get(result["label"].upper(), "neutral")
MapLabel(label) ==
    IF upper(label) \in DOMAIN label_map THEN label_map[upper(label)] ELSE "neutral"

NoResult == [sentiment |-> "", confidence |-> 0]

\* analyze() that answers a default instead of re-raising
analyze_swallow(text, out) ==
    IF out.raised
    THEN [raised |-> FALSE, has_result |-> TRUE, model_calls |-> 1,
          result |-> [sentiment |-> "neutral", confidence |-> 0]]
    ELSE [raised |-> FALSE, has_result |-> TRUE, model_calls |-> 1,
          result |-> [sentiment |-> MapLabel(out.label), confidence |-> out.score]]

\* SentimentAnalyzer.analyze(text), `out` being what self.model(text) does
analyze(text, out) ==
    IF out.raised
    THEN [raised |-> TRUE, has_result |-> FALSE, model_calls |-> 1,
          result |-> NoResult]
    ELSE [raised |-> FALSE, has_result |-> TRUE, model_calls |-> 1,
          result |-> [sentiment |-> MapLabel(out.label), confidence |-> out.score]]

\* SentimentAnalyzer(): `loads` says whether pipeline(...) returns or raises
SentimentAnalyzer(id, loads) ==
    IF loads
    THEN [raised |-> FALSE,
          obj |-> [id |-> id, model |-> "pipeline", model_version |-> model_name]]
    ELSE [raised |-> TRUE, obj |-> None]

\* Whether pipeline(...) returns or raises, where get_analyzer() would call it
Loads(cur) == IF cur = None THEN BOOLEAN ELSE {TRUE}

\* get_analyzer() run without interruption from the state cur (the global),
\* n (objects constructed so far)
get_analyzer(cur, n, loads) ==
    IF cur = None
    THEN LET made == SentimentAnalyzer(n + 1, loads)
         IN  [raised |-> made.raised,
              value |-> made.obj,
              analyzer |-> IF made.raised THEN cur ELSE made.obj,
              ctor_calls |-> 1,
              constructed |-> IF made.raised THEN 0 ELSE 1]
    ELSE [raised |-> FALSE, value |-> cur, analyzer |-> cur,
          ctor_calls |-> 0, constructed |-> 0]

-----------------------------------------------------------------------------
(* app/models.py *)

\* AnalyzeRequest that accepts an empty text (no min_length)
AnalyzeRequestNoMin(body) ==
    /\ body.present
    /\ body.len <= max_length

\* AnalyzeRequest: text is required, min_length=1, max_length=5000
AnalyzeRequest(body) ==
    /\ body.present
    /\ body.len >= min_length
    /\ body.len <= max_length

\* AnalyzeResponse without the upper bound of confidence
AnalyzeResponseNoLe(sentiment, confidence) ==
    /\ sentiment \in Sentiments
    /\ confidence >= ge

\* AnalyzeResponse: sentiment is a Literal of the three, ge <= confidence <= le
AnalyzeResponse(sentiment, confidence) ==
    /\ sentiment \in Sentiments
    /\ confidence >= ge
    /\ confidence <= le

-----------------------------------------------------------------------------
(* app/main.py: the metrics *)

\* Counter.labels(...).inc()
inc(counter, key) == [counter EXCEPT ![key] = @ + 1]

NoAnalysis == [raised |-> FALSE, has_result |-> FALSE, model_calls |-> 0,
               result |-> NoResult]

NoResponse == [sentiment |-> "", confidence |-> 0, model_version |-> "",
               status |-> "", model_loaded |-> FALSE, detail |-> ""]

NoScrape == <<>>

NoLast == [endpoint |-> "none", body |-> NoBody, status |-> 0, entered |-> FALSE,
           got_analyzer |-> "no", analyzer |-> None, classify |-> "no",
           raw_label |-> <<>>, analysis |-> NoAnalysis, response |-> NoResponse,
           scraped |-> NoScrape]

\* The lifespan protocol: requests are served once the startup handlers have
\* returned, or when the application is driven without its startup events
Serving == startup \in {"skipped", "returned"}

-----------------------------------------------------------------------------
(* app/main.py: the startup event and the routes *)

\* startup_event that logs the failure and does not re-raise
startup_outcome_swallow(got) == "returned"

\* startup_event: returns after get_analyzer() returned, re-raises what it raised
startup_outcome(got) == IF got.raised THEN "raised" ELSE "returned"

startup_event ==
    /\ startup = "pending"
    /\ \E loads \in Loads(_analyzer) :
         LET got == get_analyzer(_analyzer, constructed, loads)
         IN  /\ _analyzer' = got.analyzer
             /\ constructed' = constructed + got.constructed
             /\ ctor_calls' = ctor_calls + got.ctor_calls
             /\ startup' = startup_outcome(got)
    /\ UNCHANGED <<model_calls, requests_total, predictions_total,
                   request_duration, nreq, last>>
    /\ UNCHANGED threadVars

\* GET /
root ==
    /\ Serving
    /\ nreq < MaxRequests
    /\ nreq' = nreq + 1
    /\ last' = [NoLast EXCEPT !.endpoint = "/", !.status = 200, !.entered = TRUE,
                              !.response.detail = "Sentiment Analysis API"]
    /\ UNCHANGED <<_analyzer, constructed, ctor_calls, model_calls, startup,
                   requests_total, predictions_total, request_duration>>
    /\ UNCHANGED threadVars

\* health_check whose except branch counts nothing
health_metrics_silent(counter, got) ==
    IF got.raised THEN counter ELSE inc(counter, <<"/health", "success">>)

\* health_check: the counter it increments
health_metrics(counter, got) ==
    IF got.raised
    THEN inc(counter, <<"/health", "error">>)
    ELSE inc(counter, <<"/health", "success">>)

\* health_check: its answer
health_response(got) ==
    IF got.raised
    THEN [code |-> 503, body |-> [NoResponse EXCEPT !.detail = "Service unhealthy"]]
    ELSE [code |-> 200,
          body |-> [NoResponse EXCEPT !.status = "healthy",
                                      !.model_loaded = (got.value # None)]]

\* GET /health
health_check ==
    /\ Serving
    /\ nreq < MaxRequests
    /\ \E loads \in Loads(_analyzer) :
         LET got == get_analyzer(_analyzer, constructed, loads)
             ans == health_response(got)
         IN  /\ _analyzer' = got.analyzer
             /\ constructed' = constructed + got.constructed
             /\ ctor_calls' = ctor_calls + got.ctor_calls
             /\ requests_total' = health_metrics(requests_total, got)
             /\ last' = [NoLast EXCEPT
                           !.endpoint = "/health", !.status = ans.code,
                           !.entered = TRUE,
                           !.got_analyzer = IF got.raised THEN "raised" ELSE "ok",
                           !.analyzer = got.value,
                           !.response = ans.body]
    /\ nreq' = nreq + 1
    /\ UNCHANGED <<model_calls, startup, predictions_total, request_duration>>
    /\ UNCHANGED threadVars

\* analyze_sentiment, the body of its try block: get_analyzer(), analyze(),
\* AnalyzeResponse(...). ok: the block reached its return
analyze_try(body, cur, n, loads, out) ==
    LET got == get_analyzer(cur, n, loads)
        analysis == IF got.raised THEN NoAnalysis ELSE analyze(body.len, out)
        computed == ~got.raised /\ ~analysis.raised
        ok == computed /\ AnalyzeResponse(analysis.result.sentiment,
                                          analysis.result.confidence)
    IN  [got |-> got,
         analysis |-> analysis,
         classify |-> IF got.raised THEN "no"
                      ELSE IF out.raised THEN "raised" ELSE "ok",
         ok |-> ok,
         code |-> IF ok THEN 200 ELSE 500,
         response |-> IF ok
                      THEN [NoResponse EXCEPT
                              !.sentiment = analysis.result.sentiment,
                              !.confidence = analysis.result.confidence,
                              !.model_version = got.value.model_version]
                      ELSE [NoResponse EXCEPT !.detail = "Analysis failed"]]

\* analyze_sentiment whose except branch counts the request as a success
analyze_requests_miscount(counter, ok) == inc(counter, <<"/analyze", "success">>)

\* analyze_sentiment: requests_total, at the end of the try block or in except
analyze_requests(counter, ok) ==
    IF ok
    THEN inc(counter, <<"/analyze", "success">>)
    ELSE inc(counter, <<"/analyze", "error">>)

\* analyze_sentiment that leaves predictions_total alone
analyze_predictions_skip(counter, ok, sentiment) == counter

\* analyze_sentiment: predictions_total, at the end of the try block
analyze_predictions(counter, ok, sentiment) ==
    IF ok THEN inc(counter, sentiment) ELSE counter

\* analyze_sentiment that never observes the duration
analyze_duration_unobserved(hist) == hist

\* analyze_sentiment: `with request_duration.labels(...).time()` observes once
\* when the block is left, by return or by exception
analyze_duration(hist) == inc(hist, "/analyze")

\* POST /analyze
analyze_sentiment ==
    /\ Serving
    /\ nreq < MaxRequests
    /\ nreq' = nreq + 1
    /\ \E body \in Bodies :
         IF ~AnalyzeRequest(body)
         THEN \* the framework answers 422 and does not call the handler
              /\ last' = [NoLast EXCEPT !.endpoint = "/analyze", !.body = body,
                                        !.status = 422]
              /\ UNCHANGED <<_analyzer, constructed, ctor_calls, model_calls,
                             requests_total, predictions_total, request_duration>>
         ELSE \E loads \in Loads(_analyzer), out \in Outcomes :
                LET run == analyze_try(body, _analyzer, constructed, loads, out)
                IN  /\ _analyzer' = run.got.analyzer
                    /\ constructed' = constructed + run.got.constructed
                    /\ ctor_calls' = ctor_calls + run.got.ctor_calls
                    /\ model_calls' = model_calls + run.analysis.model_calls
                    /\ requests_total' = analyze_requests(requests_total, run.ok)
                    /\ predictions_total' =
                         analyze_predictions(predictions_total, run.ok,
                                             run.analysis.result.sentiment)
                    /\ request_duration' = analyze_duration(request_duration)
                    /\ last' = [NoLast EXCEPT
                                  !.endpoint = "/analyze", !.body = body,
                                  !.status = run.code, !.entered = TRUE,
                                  !.got_analyzer =
                                      IF run.got.raised THEN "raised" ELSE "ok",
                                  !.analyzer = run.got.value,
                                  !.classify = run.classify,
                                  !.raw_label =
                                      IF run.classify = "ok" THEN out.label ELSE <<>>,
                                  !.analysis = run.analysis,
                                  !.response = run.response]
    /\ UNCHANGED startup
    /\ UNCHANGED threadVars

\* metrics that counts its own request
metrics_effect_counting(counter) == inc(counter, <<"/metrics", "success">>)

\* metrics: what the handler does to requests_total (generate_latest() reads)
metrics_effect(counter) == counter

\* GET /metrics
metrics ==
    /\ Serving
    /\ nreq < MaxRequests
    /\ nreq' = nreq + 1
    /\ requests_total' = metrics_effect(requests_total)
    /\ last' = [NoLast EXCEPT
                  !.endpoint = "/metrics", !.status = 200, !.entered = TRUE,
                  !.scraped = <<requests_total, predictions_total, request_duration>>]
    /\ UNCHANGED <<_analyzer, constructed, ctor_calls, model_calls, startup,
                   predictions_total, request_duration>>
    /\ UNCHANGED threadVars

-----------------------------------------------------------------------------
(* The application *)

Threads == 1..NumThreads

Init ==
    /\ _analyzer = None
    /\ constructed = 0
    /\ ctor_calls = 0
    /\ model_calls = 0
    /\ startup \in {"pending", "skipped"}
    /\ requests_total = [k \in LabelPairs |-> 0]
    /\ predictions_total = [s \in Sentiments |-> 0]
    /\ request_duration = [e \in Endpoints |-> 0]
    /\ nreq = 0
    /\ last = NoLast
    /\ pc = [t \in Threads |-> "idle"]
    /\ fresh = [t \in Threads |-> None]
    /\ calls = [t \in Threads |-> 0]
    /\ returned = {}
    /\ late = [t \in Threads |-> FALSE]

Next ==
    \/ startup_event
    \/ root
    \/ health_check
    \/ analyze_sentiment
    \/ metrics

Spec == Init /\ [][Next]_vars

-----------------------------------------------------------------------------
(* get_analyzer() called from several threads: the function takes no lock,   *)
(* and the interpreter may switch threads between any two of its statements  *)
(* and inside SentimentAnalyzer(), which loads the model.                    *)

\* A thread calls get_analyzer()
Call(t) ==
    /\ pc[t] = "idle"
    /\ calls[t] < MaxCalls
    /\ calls' = [calls EXCEPT ![t] = @ + 1]
    /\ pc' = [pc EXCEPT ![t] = "check"]
    /\ late' = [late EXCEPT ![t] = (constructed > 0)]
    /\ UNCHANGED <<_analyzer, constructed, ctor_calls, fresh, returned>>
    /\ UNCHANGED appVars

\* if _analyzer is None:
Check(t) ==
    /\ pc[t] = "check"
    /\ pc' = [pc EXCEPT ![t] = IF _analyzer = None THEN "construct" ELSE "return"]
    /\ UNCHANGED <<_analyzer, constructed, ctor_calls, fresh, calls, returned, late>>
    /\ UNCHANGED appVars

\* SentimentAnalyzer(), the right-hand side of the assignment
Construct(t) ==
    /\ pc[t] = "construct"
    /\ \E loads \in BOOLEAN :
         LET made == SentimentAnalyzer(constructed + 1, loads)
         IN  /\ ctor_calls' = ctor_calls + 1
             /\ constructed' = IF made.raised THEN constructed ELSE constructed + 1
             /\ fresh' = [fresh EXCEPT ![t] = made.obj]
             /\ pc' = [pc EXCEPT ![t] = IF made.raised THEN "idle" ELSE "assign"]
    /\ UNCHANGED <<_analyzer, calls, returned, late>>
    /\ UNCHANGED appVars

\* _analyzer = <the object built>
Assign(t) ==
    /\ pc[t] = "assign"
    /\ _analyzer' = fresh[t]
    /\ fresh' = [fresh EXCEPT ![t] = None]
    /\ pc' = [pc EXCEPT ![t] = "return"]
    /\ UNCHANGED <<constructed, ctor_calls, calls, returned, late>>
    /\ UNCHANGED appVars

\* return _analyzer
Return(t) ==
    /\ pc[t] = "return"
    /\ returned' = returned \cup {_analyzer.id}
    /\ pc' = [pc EXCEPT ![t] = "idle"]
    /\ UNCHANGED <<_analyzer, constructed, ctor_calls, fresh, calls, late>>
    /\ UNCHANGED appVars

InitThreads == Init /\ startup = "skipped"

NextThreads ==
    \E t \in Threads :
        \/ Call(t)
        \/ Check(t)
        \/ Construct(t)
        \/ Assign(t)
        \/ Return(t)

SpecThreads == InitThreads /\ [][NextThreads]_vars

-----------------------------------------------------------------------------
(* Claims *)

\* C1: every get_analyzer() call, calls of several callers interleaved at the
\* first access included, returns the same Analyzer instance, and two
\* independent instances are never constructed.
C1_SameInstanceConstructedOnce ==
    /\ Cardinality(returned) <= 1
    /\ constructed <= 1

\* A request was handled in this step
Handled(endpoint) == nreq' = nreq + 1 /\ last'.endpoint = endpoint

\* An Analyzer object whose __init__ ran to its end
Complete(a) == a # None /\ a.model = "pipeline" /\ a.model_version = model_name

\* C2: no handler runs against an Analyzer whose construction has not
\* completed; where the startup event runs, requests are served only after its
\* get_analyzer() returned an Analyzer, and a startup event that raised stays
\* raised with no request ever served.
C2_ReadyOnlyAfterConstruction ==
    [][ /\ (startup' = "returned" => Complete(_analyzer'))
        /\ (startup' \in {"pending", "raised"} => nreq' = 0 /\ last' = NoLast)
        /\ (startup = "raised" => startup' = "raised")
        /\ (nreq' # nreq => startup \in {"skipped", "returned"})
        /\ (last'.classify # "no" => Complete(last'.analyzer))
        /\ (_analyzer' # None => Complete(_analyzer')) ]_vars

C2_Witness ==
    /\ startup = "returned"
    /\ last.endpoint = "/analyze"
    /\ last.classify = "ok"
    /\ Complete(last.analyzer)

\* C3: a POST /analyze whose text is missing, empty or longer than 5000
\* characters is answered 422 and Analyzer.analyze is not invoked for it; only
\* texts of 1 to 5000 characters reach the Analyzer.
C3_InvalidTextNeverAnalyzed ==
    last.endpoint = "/analyze" =>
        /\ (~last.body.present \/ last.body.len = 0 \/ last.body.len > 5000) =>
              /\ last.status = 422
              /\ ~last.entered
              /\ last.got_analyzer = "no"
              /\ last.classify = "no"
              /\ last.analysis = NoAnalysis
        /\ last.classify # "no" =>
              /\ last.body.present
              /\ last.body.len >= 1
              /\ last.body.len <= 5000

C3_Witness ==
    /\ last.endpoint = "/analyze"
    /\ last.body.present
    /\ last.body.len > 5000
    /\ last.status = 422
    /\ requests_total[<<"/analyze", "success">>] > 0

\* label is target in some mix of upper and lower case letters
CaseVariant(label, target) ==
    /\ Len(label) = Len(target)
    /\ \A i \in 1..Len(target) :
          \/ label[i] = target[i]
          \/ \E k \in 1..Len(Uppercase) :
                Uppercase[k] = target[i] /\ Lowercase[k] = label[i]

\* C4: whenever the classification capability answers, the mapping yields
\* positive for any letter-case variant of POSITIVE, negative for one of
\* NEGATIVE, neutral for one of NEUTRAL and neutral for every other raw label;
\* it never fails and yields nothing outside the three sentiments.
C4_LabelMappingTotal ==
    last.classify = "ok" =>
        /\ ~last.analysis.raised
        /\ last.analysis.has_result
        /\ last.analysis.result.sentiment \in {"positive", "negative", "neutral"}
        /\ last.analysis.result.sentiment =
              IF CaseVariant(last.raw_label, POSITIVE) THEN "positive"
              ELSE IF CaseVariant(last.raw_label, NEGATIVE) THEN "negative"
              ELSE "neutral"

C4_Witness ==
    /\ last.classify = "ok"
    /\ last.raw_label = <<"P","o","s","i","t","i","v","e">>
    /\ last.analysis.result.sentiment = "positive"

\* C5: a valid POST /analyze in which the Analyzer raises is answered 500,
\* adds exactly one to the (/analyze, error) counter, leaves the
\* (/analyze, success) counter and every predictions counter as they were, and
\* the process still serves.
C5_AnalyzerFailureCounted ==
    [][ (Handled("/analyze") /\ last'.analysis.raised) =>
          /\ last'.status = 500
          /\ requests_total'[<<"/analyze", "error">>] =
                requests_total[<<"/analyze", "error">>] + 1
          /\ requests_total'[<<"/analyze", "success">>] =
                requests_total[<<"/analyze", "success">>]
          /\ predictions_total' = predictions_total
          /\ Serving' ]_vars

C5_Witness ==
    /\ last.endpoint = "/analyze"
    /\ last.analysis.raised
    /\ last.status = 500
    /\ requests_total[<<"/analyze", "error">>] = 1

\* C6: GET /health answers 200, healthy, model_loaded true and counts
\* (/health, success) when get_analyzer() returns; it answers 503 and counts
\* (/health, error) when get_analyzer() raises, and the process still serves.
C6_HealthOutcomes ==
    [][ Handled("/health") =>
          /\ last'.got_analyzer \in {"ok", "raised"}
          /\ last'.got_analyzer = "ok" =>
                /\ last'.status = 200
                /\ last'.response.status = "healthy"
                /\ last'.response.model_loaded
                /\ requests_total' =
                      [requests_total EXCEPT ![<<"/health", "success">>] = @ + 1]
          /\ last'.got_analyzer = "raised" =>
                /\ last'.status = 503
                /\ requests_total' =
                      [requests_total EXCEPT ![<<"/health", "error">>] = @ + 1]
                /\ Serving' ]_vars

C6_Witness ==
    /\ last.endpoint = "/health"
    /\ last.got_analyzer = "raised"
    /\ last.status = 503
    /\ requests_total[<<"/health", "error">>] = 1

\* C7: every 200 answer of POST /analyze carries a sentiment among positive,
\* negative, neutral and a confidence within [0,1] (0 to 1000 thousandths),
\* whatever label and score the classification capability returned.
C7_SuccessfulResponseInRange ==
    (last.endpoint = "/analyze" /\ last.status = 200) =>
        /\ last.response.sentiment \in {"positive", "negative", "neutral"}
        /\ last.response.confidence >= 0
        /\ last.response.confidence <= 1000
        /\ last.response.confidence = last.analysis.result.confidence

C7_Witness ==
    /\ last.endpoint = "/analyze"
    /\ last.status = 200
    /\ last.response.confidence = 1000
    /\ requests_total[<<"/analyze", "error">>] > 0

\* C8: when the classification capability raises, analyze propagates the
\* exception, has invoked the capability exactly once and returns no result.
C8_AnalyzeReraisesOnce ==
    [][ (Handled("/analyze") /\ last'.classify = "raised") =>
          /\ last'.analysis.raised
          /\ ~last'.analysis.has_result
          /\ last'.analysis.result = NoResult
          /\ model_calls' = model_calls + 1 ]_vars

C8_Witness ==
    /\ last.classify = "raised"
    /\ last.analysis.raised
    /\ model_calls = 2

\* C9: GET /metrics and GET / call neither get_analyzer() nor analyze and
\* leave the singleton and every metric unchanged; GET /metrics answers the
\* current metric values.
C9_MetricsAndRootReadOnly ==
    [][ (Handled("/metrics") \/ Handled("/")) =>
          /\ UNCHANGED <<_analyzer, constructed, ctor_calls, model_calls,
                         requests_total, predictions_total, request_duration>>
          /\ last'.got_analyzer = "no"
          /\ last'.classify = "no"
          /\ Handled("/metrics") =>
                last'.scraped =
                    <<requests_total, predictions_total, request_duration>> ]_vars

C9_Witness ==
    /\ last.endpoint = "/metrics"
    /\ last.status = 200
    /\ last.scraped = <<requests_total, predictions_total, request_duration>>
    /\ requests_total[<<"/analyze", "success">>] = 1
    /\ _analyzer # None

SumPredictions(counter) ==
    counter["positive"] + counter["negative"] + counter["neutral"]

\* C10: each POST /analyze that passed validation adds one to exactly one of
\* the (/analyze, success) and (/analyze, error) counters; the predictions
\* counters sum to the (/analyze, success) counter; no counter decreases.
C10_CountersConsistent ==
    [][ /\ \A k \in LabelPairs : requests_total'[k] >= requests_total[k]
        /\ \A s \in Sentiments : predictions_total'[s] >= predictions_total[s]
        /\ SumPredictions(predictions_total') =
              requests_total'[<<"/analyze", "success">>]
        /\ (Handled("/analyze") /\ last'.entered) =>
              \/ requests_total' =
                    [requests_total EXCEPT ![<<"/analyze", "success">>] = @ + 1]
              \/ requests_total' =
                    [requests_total EXCEPT ![<<"/analyze", "error">>] = @ + 1] ]_vars

C10_Witness ==
    /\ requests_total[<<"/analyze", "success">>] = 2
    /\ requests_total[<<"/analyze", "error">>] = 1
    /\ predictions_total["positive"] = 1
    /\ predictions_total["neutral"] = 1

\* C11: a construction that raises inside get_analyzer() propagates and leaves
\* the singleton unset, so the next call constructs again; once a construction
\* has succeeded, no call begun after it replaces or resets the cached instance.
C11_FailureRetriedSuccessKept ==
    [][ \A t \in Threads :
          /\ (pc[t] = "construct" /\ pc'[t] = "idle") =>
                /\ _analyzer' = _analyzer
                /\ ctor_calls' = ctor_calls + 1
                /\ constructed' = constructed
          /\ (pc[t] = "check" /\ pc'[t] = "construct") => _analyzer = None
          /\ (late[t] /\ pc[t] # pc'[t] /\ _analyzer # None) =>
                _analyzer' = _analyzer ]_vars

\* C12: every POST /analyze that enters the handler adds exactly one
\* observation to the /analyze duration histogram, whether it ends in 200 or
\* in 500, no other request adds one, and the observation count equals the sum
\* of the (/analyze, success) and (/analyze, error) counters.
C12_DurationObservedOncePerRequest ==
    [][ /\ request_duration' =
              IF Handled("/analyze") /\ last'.entered
              THEN [request_duration EXCEPT !["/analyze"] = @ + 1]
              ELSE request_duration
        /\ (Handled("/analyze") /\ last'.entered) => last'.status \in {200, 500}
        /\ request_duration'["/analyze"] =
              requests_total'[<<"/analyze", "success">>]
                  + requests_total'[<<"/analyze", "error">>] ]_vars

C12_Witness ==
    /\ request_duration["/analyze"] = 2
    /\ requests_total[<<"/analyze", "success">>] = 1
    /\ requests_total[<<"/analyze", "error">>] = 1
    /\ last.endpoint = "/analyze"
    /\ last.status = 500

====
